---- MODULE Spec2Model ----
(***************************************************************************)
(* Model of the pyfuse bridge (bridge.c / bridge.h) and of the readdir     *)
(* prototype (dummy_function).                                             *)
(*                                                                         *)
(* The host protocol (libfuse) calls one of five operation functions.  Each *)
(* looks its handler up in the global python_callbacks table, converts the *)
(* host's native structure into the neutral one, calls the handler and     *)
(* converts back.  One action models one whole call of one operation.      *)
(*                                                                         *)
(* Integer fields hold the object representation of the C field.  Every    *)
(* assignment the translators make is between integer types of the same    *)
(* width (int/uint32_t, off_t/uint64_t, ...), which keeps the              *)
(* representation; the one-bit bitfields direct_io and nonseekable are     *)
(* converted to and from bool.                                             *)
(***************************************************************************)
EXTENDS Integers, Sequences, FiniteSets, TLC

\* errno values used by the bridge
EPERM == 1
ENOENT == 2
EIO == 5
EACCES == 13

\* the null pointer: an unset callback slot, an unset entries pointer, the
\* terminator of the entries array
NULL == 0

\* longest directory listing a handler produces in the model
MaxEntries == 3

Ops == {"open", "readdir", "getattr", "read", "write"}
FileOps == {"open", "read", "write"}

\* function addresses a callback slot can hold
Handlers == {1}

Paths == {"/hello"}

\* the names of a directory, in the order of the sample filesystem's listing
DirNames == << ".", "..", "hello", "moto" >>
NameAt(i) == DirNames[((i - 1) % Len(DirNames)) + 1]

----------------------------------------------------------------------------
\* Native structures of the host and the values the host hands in

\* struct fuse_file_info: the fields the bridge touches, and keep_cache as
\* one of those it never touches
FuseFileInfos ==
    { [flags |-> 32769, fh |-> 7, direct_io |-> 1, nonseekable |-> 0, keep_cache |-> 1] }

\* struct stat: the fields the bridge touches, and st_mtime as one of those it
\* never touches
Stats ==
    { [st_mode |-> 0, st_nlink |-> 0, st_uid |-> 0, st_gid |-> 0, st_size |-> 0, st_mtime |-> 0],
      [st_mode |-> 16877, st_nlink |-> 2, st_uid |-> 1000, st_gid |-> 1000,
       st_size |-> 4096, st_mtime |-> 99] }

Sizes == {0, 100}

----------------------------------------------------------------------------
\* Handlers are external: a handler call is modelled by the result code it
\* returns and the fields of the neutral structure it overwrites.

NoWrites == [f \in {} |-> 0]

FileInfoWrites ==
    { NoWrites,
      [handle |-> 42, nonseekable |-> TRUE],
      [handle |-> 0, flags |-> 1024, direct_io |-> FALSE, nonseekable |-> FALSE] }

AttributeWrites ==
    { NoWrites,
      [mode |-> 33060, size |-> 13],
      [mode |-> 16877, uid |-> 0, gid |-> 0, size |-> 0] }

OpenRets == {0, -ENOENT, -EACCES}
GetattrRets == {0, -ENOENT, -EACCES}
ReaddirRets == {0, -EACCES}
\* a read or write handler returns a byte count up to the size asked, or an error
IoRets(size) == {n \in {0, 13, 100} : n <= size} \cup {-EIO}

Overwrite(s, w) == [f \in DOMAIN s |-> IF f \in DOMAIN w THEN w[f] ELSE s[f]]

\* the handler's call on a neutral structure
CallHandler(h, s) == [ret |-> h.ret, out |-> Overwrite(s, h.writes)]

----------------------------------------------------------------------------
\* Struct translators

BoolOfBit(b) == b # 0
BitOfBool(b) == IF b THEN 1 ELSE 0

load_file_info(in) ==
    [handle |-> in.fh,
     flags |-> in.flags,
     direct_io |-> BoolOfBit(in.direct_io),
     nonseekable |-> BoolOfBit(in.nonseekable)]

\* unload_file_info that forgets the flags
unload_file_info_drops_flags(in, out) ==
    [out EXCEPT !.fh = in.handle,
                !.direct_io = BitOfBool(in.direct_io),
                !.nonseekable = BitOfBool(in.nonseekable)]

unload_file_info(in, out) ==
    [out EXCEPT !.fh = in.handle,
                !.flags = in.flags,
                !.direct_io = BitOfBool(in.direct_io),
                !.nonseekable = BitOfBool(in.nonseekable)]

load_attributes(in) ==
    [mode |-> in.st_mode,
     uid |-> in.st_uid,
     gid |-> in.st_gid,
     size |-> in.st_size]

\* unload_attributes that forgets the size
unload_attributes_drops_size(in, out) ==
    [out EXCEPT !.st_mode = in.mode,
                !.st_uid = in.uid,
                !.st_gid = in.gid]

unload_attributes(in, out) ==
    [out EXCEPT !.st_mode = in.mode,
                !.st_uid = in.uid,
                !.st_gid = in.gid,
                !.st_size = in.size]

----------------------------------------------------------------------------
\* What one call of an operation function leaves behind.  The host's
\* per-request objects (the stat buffer, the readdir buffer, the memory the
\* readdir handler allocated) live in this record; the fuse_file_info of the
\* open descriptor outlives the request and is the variable fi.

ZeroInfo == [handle |-> 0, flags |-> 0, direct_io |-> FALSE, nonseekable |-> FALSE]
ZeroAttributes == [mode |-> 0, uid |-> 0, gid |-> 0, size |-> 0]
ZeroFuseFileInfo ==
    [flags |-> 0, fh |-> 0, direct_io |-> 0, nonseekable |-> 0, keep_cache |-> 0]
ZeroStat ==
    [st_mode |-> 0, st_nlink |-> 0, st_uid |-> 0, st_gid |-> 0, st_size |-> 0, st_mtime |-> 0]

NoAllocator == "none"

NoCall ==
    [op |-> "none", path |-> "", cb |-> NULL,
     invoked |-> FALSE,          \* the handler was called
     hret |-> 0,                 \* what the handler returned
     retval |-> 0,               \* what the operation returned to the host
     trace |-> <<>>,             \* translator, handler, filler and free calls, in order
     size |-> 0,
     fi_in |-> ZeroFuseFileInfo, fi_out |-> ZeroFuseFileInfo,
     info_in |-> ZeroInfo, info_out |-> ZeroInfo,
     st_in |-> ZeroStat, st_out |-> ZeroStat,
     attr_in |-> ZeroAttributes, attr_out |-> ZeroAttributes,
     allocator |-> NoAllocator,  \* the allocator argument the handler was given
     entries |-> NULL,           \* the entries pointer after the handler call
     strs |-> <<>>,              \* strs[a]: the string allocated at address a
     arr |-> <<>>,               \* the array at address entries, its terminator included
     freed |-> <<>>,             \* freed[a]: how many times free(a) was called
     cap |-> 0,                  \* entries the host's buffer has room for
     dirbuf |-> <<>>]            \* names the filler has accepted

Ev(what, arg) == <<what, arg>>

----------------------------------------------------------------------------
\* open / read / write

bridge_open(cbs, path, fi_, h) ==
    LET base == [NoCall EXCEPT !.op = "open", !.path = path, !.cb = cbs.open,
                               !.fi_in = fi_, !.fi_out = fi_]
    IN  IF cbs.open = NULL
        THEN [base EXCEPT !.retval = -EPERM]
        ELSE LET info == load_file_info(fi_)
                 r == CallHandler(h, info)
             IN  [base EXCEPT !.invoked = TRUE, !.hret = r.ret,
                              !.info_in = info, !.info_out = r.out,
                              !.fi_out = unload_file_info(r.out, fi_),
                              !.trace = << Ev("load_file_info", 0), Ev("handler", 0),
                                           Ev("unload_file_info", 0) >>,
                              !.retval = r.ret]

\* bridge_read that reports a short read as an I/O error
bridge_read_short_is_error(cbs, path, size, fi_, h) ==
    LET base == [NoCall EXCEPT !.op = "read", !.path = path, !.cb = cbs.read,
                               !.size = size, !.fi_in = fi_, !.fi_out = fi_]
    IN  IF cbs.read = NULL
        THEN [base EXCEPT !.retval = -EPERM]
        ELSE LET info == load_file_info(fi_)
                 r == CallHandler(h, info)
             IN  [base EXCEPT !.invoked = TRUE, !.hret = r.ret,
                              !.info_in = info, !.info_out = r.out,
                              !.fi_out = unload_file_info(r.out, fi_),
                              !.trace = << Ev("load_file_info", 0), Ev("handler", 0),
                                           Ev("unload_file_info", 0) >>,
                              !.retval = IF r.ret >= 0 /\ r.ret < size THEN -EIO ELSE r.ret]

bridge_read(cbs, path, size, fi_, h) ==
    LET base == [NoCall EXCEPT !.op = "read", !.path = path, !.cb = cbs.read,
                               !.size = size, !.fi_in = fi_, !.fi_out = fi_]
    IN  IF cbs.read = NULL
        THEN [base EXCEPT !.retval = -EPERM]
        ELSE LET info == load_file_info(fi_)
                 r == CallHandler(h, info)
             IN  [base EXCEPT !.invoked = TRUE, !.hret = r.ret,
                              !.info_in = info, !.info_out = r.out,
                              !.fi_out = unload_file_info(r.out, fi_),
                              !.trace = << Ev("load_file_info", 0), Ev("handler", 0),
                                           Ev("unload_file_info", 0) >>,
                              !.retval = r.ret]

\* bridge_write that copies the fuse_file_info through the translators before
\* it looks at the slot, and answers an unset slot with -ENOENT
bridge_write_late_check(cbs, path, size, fi_, h) ==
    LET base == [NoCall EXCEPT !.op = "write", !.path = path, !.cb = cbs.write,
                               !.size = size, !.fi_in = fi_, !.fi_out = fi_]
        info == load_file_info(fi_)
    IN  IF cbs.write = NULL
        THEN [base EXCEPT !.retval = -ENOENT,
                          !.trace = << Ev("load_file_info", 0) >>]
        ELSE LET r == CallHandler(h, info)
             IN  [base EXCEPT !.invoked = TRUE, !.hret = r.ret,
                              !.info_in = info, !.info_out = r.out,
                              !.fi_out = unload_file_info(r.out, fi_),
                              !.trace = << Ev("load_file_info", 0), Ev("handler", 0),
                                           Ev("unload_file_info", 0) >>,
                              !.retval = r.ret]

bridge_write(cbs, path, size, fi_, h) ==
    LET base == [NoCall EXCEPT !.op = "write", !.path = path, !.cb = cbs.write,
                               !.size = size, !.fi_in = fi_, !.fi_out = fi_]
    IN  IF cbs.write = NULL
        THEN [base EXCEPT !.retval = -EPERM]
        ELSE LET info == load_file_info(fi_)
                 r == CallHandler(h, info)
             IN  [base EXCEPT !.invoked = TRUE, !.hret = r.ret,
                              !.info_in = info, !.info_out = r.out,
                              !.fi_out = unload_file_info(r.out, fi_),
                              !.trace = << Ev("load_file_info", 0), Ev("handler", 0),
                                           Ev("unload_file_info", 0) >>,
                              !.retval = r.ret]

----------------------------------------------------------------------------
\* getattr

\* bridge_getattr that copies the attributes back whatever the handler returned
bridge_getattr_always_unloads(cbs, path, stbuf, h) ==
    LET base == [NoCall EXCEPT !.op = "getattr", !.path = path, !.cb = cbs.getattr,
                               !.st_in = stbuf, !.st_out = stbuf]
    IN  IF cbs.getattr = NULL
        THEN [base EXCEPT !.retval = -EPERM]
        ELSE LET attributes == load_attributes(stbuf)
                 r == CallHandler(h, attributes)
             IN  [base EXCEPT !.invoked = TRUE, !.hret = r.ret,
                              !.attr_in = attributes, !.attr_out = r.out,
                              !.st_out = unload_attributes(r.out, [stbuf EXCEPT !.st_nlink = 1]),
                              !.trace = << Ev("load_attributes", 0), Ev("handler", 0),
                                           Ev("unload_attributes", 0) >>,
                              !.retval = r.ret]

bridge_getattr(cbs, path, stbuf, h) ==
    LET base == [NoCall EXCEPT !.op = "getattr", !.path = path, !.cb = cbs.getattr,
                               !.st_in = stbuf, !.st_out = stbuf]
    IN  IF cbs.getattr = NULL
        THEN [base EXCEPT !.retval = -EPERM]
        ELSE LET attributes == load_attributes(stbuf)
                 r == CallHandler(h, attributes)
                 called == [base EXCEPT !.invoked = TRUE, !.hret = r.ret,
                                        !.attr_in = attributes, !.attr_out = r.out,
                                        !.trace = << Ev("load_attributes", 0),
                                                     Ev("handler", 0) >>,
                                        !.retval = r.ret]
             IN  IF r.ret # -ENOENT
                 THEN [called EXCEPT
                         !.st_out = unload_attributes(r.out, [stbuf EXCEPT !.st_nlink = 1]),
                         !.trace = Append(called.trace, Ev("unload_attributes", 0))]
                 ELSE called

----------------------------------------------------------------------------
\* readdir

\* The readdir handler either leaves *entries NULL, or allocates one string
\* per name (at addresses 1..n) and the array of n pointers and a NULL
\* terminator (at address n+1) and points *entries at the array.
Listings ==
    UNION { { [i \in 1..n |-> NameAt(i)], [i \in 1..n |-> NameAt(n + 1 - i)] } :
            n \in 0..MaxEntries }

ReaddirResults ==
    { [ret |-> r, null |-> TRUE, names |-> <<>>] : r \in ReaddirRets }
    \cup
    { [ret |-> r, null |-> FALSE, names |-> ns] : r \in ReaddirRets, ns \in Listings }

CallReaddir(h) ==
    LET n == Len(h.names)
    IN  IF h.null
        THEN [ret |-> h.ret, entries |-> NULL, strs |-> <<>>, arr |-> <<>>, freed |-> <<>>]
        ELSE [ret |-> h.ret, entries |-> n + 1, strs |-> h.names,
              arr |-> [i \in 1..(n + 1) |-> IF i <= n THEN i ELSE NULL],
              freed |-> [a \in 1..(n + 1) |-> 0]]

\* the host's fill function: appends the name when the buffer has room and
\* returns 0, returns 1 and appends nothing when it is full
filler(buf, name, cap) ==
    IF Len(buf) < cap
    THEN [ret |-> 0, buf |-> Append(buf, name)]
    ELSE [ret |-> 1, buf |-> buf]

\* free(ptr)
free(c, ptr) ==
    [c EXCEPT !.freed[ptr] = @ + 1, !.trace = Append(@, Ev("free", ptr))]

\* the loop body without its free(entries[x])
readdir_body_no_free(c, x) ==
    LET p == c.c.arr[x + 1]
        f == filler(c.c.dirbuf, c.c.strs[p], c.c.cap)
        filled == [c.c EXCEPT !.dirbuf = f.buf, !.trace = Append(@, Ev("filler", p))]
    IN  IF f.ret # 0
        THEN [c |-> [filled EXCEPT !.retval = -EIO], brk |-> TRUE]
        ELSE [c |-> filled, brk |-> FALSE]

\* the loop body without its break
readdir_body_no_break(c, x) ==
    LET p == c.c.arr[x + 1]
        f == filler(c.c.dirbuf, c.c.strs[p], c.c.cap)
        filled == [c.c EXCEPT !.dirbuf = f.buf, !.trace = Append(@, Ev("filler", p))]
    IN  IF f.ret # 0
        THEN [c |-> free([filled EXCEPT !.retval = -EIO], p), brk |-> FALSE]
        ELSE [c |-> free(filled, p), brk |-> FALSE]

\* one pass through the body of bridge_readdir's loop, for entries[x];
\* brk tells that the loop was left by break
readdir_body(c, x) ==
    LET p == c.c.arr[x + 1]
        f == filler(c.c.dirbuf, c.c.strs[p], c.c.cap)
        filled == [c.c EXCEPT !.dirbuf = f.buf, !.trace = Append(@, Ev("filler", p))]
    IN  IF f.ret # 0
        THEN [c |-> [filled EXCEPT !.retval = -EIO], brk |-> TRUE]
        ELSE [c |-> free(filled, p), brk |-> FALSE]

RECURSIVE readdir_loop(_, _)
readdir_loop(c, x) ==
    IF c.arr[x + 1] = NULL
    THEN c
    ELSE LET b == readdir_body([c |-> c, brk |-> FALSE], x)
         IN  IF b.brk THEN b.c ELSE readdir_loop(b.c, x + 1)

\* bridge_readdir that takes a NULL entries pointer for an empty listing
bridge_readdir_null_is_empty(cbs, path, cap, h) ==
    LET base == [NoCall EXCEPT !.op = "readdir", !.path = path, !.cb = cbs.readdir,
                               !.cap = cap]
    IN  IF cbs.readdir = NULL
        THEN [base EXCEPT !.retval = -EPERM]
        ELSE LET r == CallReaddir(h)
                 called == [base EXCEPT !.invoked = TRUE, !.hret = r.ret,
                                        !.allocator = NoAllocator,
                                        !.entries = r.entries, !.strs = r.strs,
                                        !.arr = r.arr, !.freed = r.freed,
                                        !.trace = << Ev("handler", 0) >>,
                                        !.retval = r.ret]
             IN  IF r.entries = NULL
                 THEN called
                 ELSE free(readdir_loop(called, 0), r.entries)

bridge_readdir(cbs, path, cap, h) ==
    LET base == [NoCall EXCEPT !.op = "readdir", !.path = path, !.cb = cbs.readdir,
                               !.cap = cap]
    IN  IF cbs.readdir = NULL
        THEN [base EXCEPT !.retval = -EPERM]
        ELSE LET r == CallReaddir(h)
                 called == [base EXCEPT !.invoked = TRUE, !.hret = r.ret,
                                        !.allocator = NoAllocator,
                                        !.entries = r.entries, !.strs = r.strs,
                                        !.arr = r.arr, !.freed = r.freed,
                                        !.trace = << Ev("handler", 0) >>,
                                        !.retval = r.ret]
             IN  IF r.entries = NULL
                 THEN [called EXCEPT !.retval = -ENOENT]
                 ELSE free(readdir_loop(called, 0), r.entries)

\* the prototype of the allocator handoff: the handler is given zalloc, each
\* entry is printed instead of handed to a fill function
RECURSIVE dummy_loop(_, _)
dummy_loop(c, x) ==
    LET p == c.arr[x + 1]
    IN  IF p = NULL
        THEN c
        ELSE dummy_loop(free([c EXCEPT !.trace = Append(@, Ev("printf", p))], p), x + 1)

dummy_function(cbs, h) ==
    LET base == [NoCall EXCEPT !.op = "dummy_function", !.cb = cbs.readdir]
    IN  IF cbs.readdir = NULL
        THEN [base EXCEPT !.retval = -EPERM]
        ELSE LET r == CallReaddir(h)
                 called == [base EXCEPT !.invoked = TRUE, !.hret = r.ret,
                                        !.allocator = "zalloc",
                                        !.entries = r.entries, !.strs = r.strs,
                                        !.arr = r.arr, !.freed = r.freed,
                                        !.trace = << Ev("handler", 0) >>,
                                        !.retval = r.ret]
             IN  IF r.entries = NULL
                 THEN [called EXCEPT !.retval = -ENOENT]
                 ELSE free(dummy_loop(called, 0), r.entries)

----------------------------------------------------------------------------
\* State

VARIABLES
    python_callbacks,   \* the bridge's callback table
    callbacks,          \* the prototype's callback table
    fi,                 \* the host's fuse_file_info of the open descriptor
    last                \* the last call of an operation function

vars == << python_callbacks, callbacks, fi, last >>

Init ==
    /\ python_callbacks = [op \in Ops |-> NULL]
    /\ callbacks = [readdir |-> NULL]
    /\ fi \in FuseFileInfos
    /\ last = NoCall

\* the handler side stores a function pointer in one slot of the table
Register(op, fn) ==
    /\ python_callbacks' = [python_callbacks EXCEPT ![op] = fn]
    /\ UNCHANGED << callbacks, fi, last >>

RegisterPrototype(fn) ==
    /\ callbacks' = [callbacks EXCEPT !.readdir = fn]
    /\ UNCHANGED << python_callbacks, fi, last >>

Open(path, h) ==
    /\ last' = bridge_open(python_callbacks, path, fi, h)
    /\ fi' = last'.fi_out
    /\ UNCHANGED << python_callbacks, callbacks >>

Read(path, size, h) ==
    /\ last' = bridge_read(python_callbacks, path, size, fi, h)
    /\ fi' = last'.fi_out
    /\ UNCHANGED << python_callbacks, callbacks >>

Write(path, size, h) ==
    /\ last' = bridge_write(python_callbacks, path, size, fi, h)
    /\ fi' = last'.fi_out
    /\ UNCHANGED << python_callbacks, callbacks >>

Getattr(path, stbuf, h) ==
    /\ last' = bridge_getattr(python_callbacks, path, stbuf, h)
    /\ UNCHANGED << python_callbacks, callbacks, fi >>

Readdir(path, cap, h) ==
    /\ last' = bridge_readdir(python_callbacks, path, cap, h)
    /\ UNCHANGED << python_callbacks, callbacks, fi >>

Dummy(h) ==
    /\ last' = dummy_function(callbacks, h)
    /\ UNCHANGED << python_callbacks, callbacks, fi >>

Next ==
    \/ \E op \in Ops, fn \in Handlers : Register(op, fn)
    \/ \E fn \in Handlers : RegisterPrototype(fn)
    \/ \E path \in Paths, r \in OpenRets, w \in FileInfoWrites :
          Open(path, [ret |-> r, writes |-> w])
    \/ \E path \in Paths, size \in Sizes, w \in FileInfoWrites :
          \E r \in IoRets(size) : Read(path, size, [ret |-> r, writes |-> w])
    \/ \E path \in Paths, size \in Sizes, w \in FileInfoWrites :
          \E r \in IoRets(size) : Write(path, size, [ret |-> r, writes |-> w])
    \/ \E path \in Paths, stbuf \in Stats, r \in GetattrRets, w \in AttributeWrites :
          Getattr(path, stbuf, [ret |-> r, writes |-> w])
    \/ \E path \in Paths, cap \in 0..MaxEntries, h \in ReaddirResults :
          Readdir(path, cap, h)
    \/ \E h \in ReaddirResults : Dummy(h)

Spec == Init /\ [][Next]_vars

----------------------------------------------------------------------------
\* Properties

Fills(tr) == SelectSeq(tr, LAMBDA e : e[1] = "filler")
Frees(tr) == SelectSeq(tr, LAMBDA e : e[1] = "free")
Times(tr, e) == Cardinality({i \in 1..Len(tr) : tr[i] = e})

\* a readdir call whose handler set the entries pointer
Listed == last.op = "readdir" /\ last.invoked /\ last.entries # NULL
NumEntries == Len(last.strs)
\* the fill function accepts the first cap entries and rejects entry number cap
AllAccepted == NumEntries <= last.cap
Rejected == NumEntries > last.cap

\* C1: an operation called while its slot is unset returns -EPERM, calls no
\* handler and no translator, and leaves the host's fuse_file_info, stat
\* buffer and readdir buffer as they were; so does every operation while no
\* slot has been set at all.
C1_UnsetSlotIsEPERM ==
    /\ (last.op \in Ops /\ last.cb = NULL) =>
          /\ last.retval = -EPERM
          /\ ~last.invoked
          /\ last.trace = <<>>
          /\ last.fi_out = last.fi_in
          /\ (last.op \in FileOps => fi = last.fi_in)
          /\ last.st_out = last.st_in
          /\ last.dirbuf = <<>>
          /\ last.freed = <<>>
    /\ (last.op \in Ops /\ \A op \in Ops : python_callbacks[op] = NULL) =>
          last.retval = -EPERM

C1_Witness ==
    /\ last.op = "write" /\ last.cb = NULL
    /\ python_callbacks["open"] # NULL
    /\ fi.fh = 42

\* C2: when the handler returns n names and the fill function accepts them
\* all, the fill function is called n times, on the handler's strings in the
\* handler's order; every string is freed once, after it was filled; the
\* array is freed once; the handler's result code is returned.
C2_AllFilledAllFreed ==
    (Listed /\ AllAccepted) =>
       /\ Fills(last.trace) = [i \in 1..NumEntries |-> Ev("filler", i)]
       /\ last.dirbuf = last.strs
       /\ \A a \in 1..NumEntries :
             /\ Times(last.trace, Ev("free", a)) = 1
             /\ \E i, j \in 1..Len(last.trace) :
                   /\ i < j
                   /\ last.trace[i] = Ev("filler", a)
                   /\ last.trace[j] = Ev("free", a)
       /\ Times(last.trace, Ev("free", last.entries)) = 1
       /\ last.trace[Len(last.trace)] = Ev("free", last.entries)
       /\ last.freed = [a \in 1..(NumEntries + 1) |-> 1]
       /\ last.retval = last.hret

C2_Witness ==
    /\ Listed /\ AllAccepted
    /\ NumEntries = 3
    /\ last.strs[1] = NameAt(3)
    /\ last.dirbuf = last.strs
    /\ last.hret = -EACCES

\* C3: when the handler leaves the entries pointer NULL, readdir returns
\* -ENOENT whatever the handler returned, fills nothing and frees nothing.
C3_NullEntriesIsENOENT ==
    (last.op = "readdir" /\ last.invoked /\ last.entries = NULL) =>
       /\ last.retval = -ENOENT
       /\ Fills(last.trace) = <<>>
       /\ Frees(last.trace) = <<>>
       /\ last.dirbuf = <<>>

C3_Witness ==
    /\ last.op = "readdir" /\ last.invoked /\ last.entries = NULL
    /\ last.hret = 0
    /\ last.retval = -ENOENT

\* C4: when the getattr handler returns -ENOENT the host's stat buffer is
\* left exactly as it was handed in.
C4_ENOENTLeavesStat ==
    (last.op = "getattr" /\ last.invoked /\ last.hret = -ENOENT) =>
       last.st_out = last.st_in

C4_Witness ==
    /\ last.op = "getattr" /\ last.invoked /\ last.hret = -ENOENT
    /\ last.attr_out # last.attr_in
    /\ last.st_in.st_nlink = 2

\* C5: when the getattr handler returns 0 the stat buffer handed back has
\* st_nlink 1 and the size, mode, uid and gid the handler left in the
\* neutral structure, which it had received holding the host's values.
C5_SuccessSetsNlinkAndCopies ==
    (last.op = "getattr" /\ last.invoked /\ last.hret = 0) =>
       /\ last.st_out.st_nlink = 1
       /\ last.st_out.st_size = last.attr_out.size
       /\ last.st_out.st_mode = last.attr_out.mode
       /\ last.st_out.st_uid = last.attr_out.uid
       /\ last.st_out.st_gid = last.attr_out.gid
       /\ last.attr_in.size = last.st_in.st_size
       /\ last.attr_in.mode = last.st_in.st_mode
       /\ last.attr_in.uid = last.st_in.st_uid
       /\ last.attr_in.gid = last.st_in.st_gid

C5_Witness ==
    /\ last.op = "getattr" /\ last.invoked /\ last.hret = 0
    /\ last.st_in.st_nlink = 2
    /\ last.attr_out.size = 13
    /\ last.st_out.st_uid = 1000

\* C6: every readdir call with a registered handler gives the handler the
\* bridge's allocation function.
C6_AllocatorPassed ==
    (last.op = "readdir" /\ last.invoked) => last.allocator = "zalloc"

\* the prototype does give its handler the allocation function
PrototypePassesAllocator ==
    (last.op = "dummy_function" /\ last.invoked) => last.allocator = "zalloc"

\* C7: after each open, read or write the host's fh, flags, direct_io and
\* nonseekable are what the handler left in the neutral structure, whatever
\* it returned, and are unchanged when it wrote nothing; the next such call
\* presents those values to its handler.
C7_After ==
    (last.op \in FileOps /\ last.invoked) =>
       /\ fi = last.fi_out
       /\ fi.fh = last.info_out.handle
       /\ fi.flags = last.info_out.flags
       /\ (fi.direct_io = 1) = last.info_out.direct_io
       /\ (fi.nonseekable = 1) = last.info_out.nonseekable
       /\ fi.direct_io \in {0, 1} /\ fi.nonseekable \in {0, 1}
       /\ (last.info_out = last.info_in => fi = last.fi_in)

C7_Step ==
    /\ (last' # last /\ last'.op \in FileOps /\ last'.invoked) =>
          /\ last'.info_in.handle = fi.fh
          /\ last'.info_in.flags = fi.flags
          /\ last'.info_in.direct_io = (fi.direct_io = 1)
          /\ last'.info_in.nonseekable = (fi.nonseekable = 1)
          /\ (last.op \in FileOps /\ last.invoked) => last'.info_in = last.info_out
    /\ (last' # last /\ last'.op \notin FileOps) => fi' = fi

C7_FileInfoRoundTrip == []C7_After /\ [][C7_Step]_vars

C7_Witness ==
    /\ last.op = "read" /\ last.invoked
    /\ last.hret < 0
    /\ last.info_in.handle = 42
    /\ last.info_out = last.info_in
    /\ fi.fh = 42 /\ fi.nonseekable = 1

\* C8: open, getattr, read and write return to the host exactly what the
\* handler returned: 0, an error, or a byte count that may be 0 or less than
\* the size asked.
C8_ResultPassedThrough ==
    (last.op \in {"open", "getattr", "read", "write"} /\ last.invoked) =>
       last.retval = last.hret

C8_Witness ==
    /\ last.op = "read" /\ last.invoked
    /\ last.size = 100
    /\ last.hret = 13
    /\ last.retval = 13

\* C9: when the fill function rejects an entry, every string the handler
\* allocated and the array have been freed exactly once when readdir returns.
C9_AllFreedOnReject ==
    (Listed /\ Rejected) =>
       \A a \in 1..(NumEntries + 1) : last.freed[a] = 1

\* C10: when the fill function rejects entry k, it is not called again, the
\* k entries it accepted stay in the host's buffer, and readdir returns -EIO
\* whatever the handler returned.
C10_RejectStopsWithEIO ==
    (Listed /\ Rejected) =>
       /\ last.retval = -EIO
       /\ Fills(last.trace) = [i \in 1..(last.cap + 1) |-> Ev("filler", i)]
       /\ last.dirbuf = SubSeq(last.strs, 1, last.cap)

C10_Witness ==
    /\ Listed /\ Rejected
    /\ NumEntries = 3
    /\ last.cap = 1
    /\ last.hret = -EACCES
    /\ last.retval = -EIO
    /\ last.dirbuf = << NameAt(1) >>

====
